---- MODULE Spec2Model ----
(***************************************************************************)
(* Model of src/src/server.ts: the element-set cache and fetchTLE, and the *)
(* sampling walk of calculatePasses.                                       *)
(***************************************************************************)
EXTENDS Integers, Sequences, FiniteSets, TLC

VARIABLES
    tleCache,    \* Map<string, {tle, timestamp}>; NoEntry where the key is absent
    now,         \* Date.now(), in milliseconds
    pc,          \* per fetchTLE call: where the async function stands
    callId,      \* per call: its satelliteId argument
    result,      \* per call: the TLEData the promise resolved with (NoTLE otherwise)
    remoteCalls, \* per call: how many times the invocation called the global fetch
    pcW,         \* calculatePasses: "idle", "loop" or "returned"
    startTime,   \* its startTime argument, in milliseconds
    endTime,     \* its endTime argument, in milliseconds
    date,        \* the loop variable, in milliseconds
    currentPass, \* the pending pass, or NoPass (null)
    passes,      \* the result array
    elevations,  \* per sample taken so far: its elevation, or Skipped
    azimuth,     \* the azimuth computed for the latest valid sample
    visited,     \* the instants satellite.propagate was called with, in call order
    zone,        \* the time zone of the host, which Date's local-time methods use
    hpc,         \* per request handler: where passesPrediction stands
    request,     \* per request handler: req.body of the request it serves
    response,    \* per request handler: the responses sent for that request, in order
    outcome,     \* per request handler: what twoline2satrec and calculatePasses did
    refCurrentPass, \* the pending pass of the same walk over the valid samples alone
    refPasses    \* the result array of the same walk over the valid samples alone

fetchVars == <<tleCache, now, pc, callId, result, remoteCalls>>

walkVars == <<pcW, startTime, endTime, date, currentPass, passes, elevations,
              azimuth, visited, zone, refCurrentPass, refPasses>>

handlerVars == <<hpc, request, response, outcome>>

vars == <<tleCache, now, pc, callId, result, remoteCalls, pcW, startTime, endTime,
          date, currentPass, passes, elevations, azimuth, visited, zone,
          refCurrentPass, refPasses, hpc, request, response, outcome>>

\* ------------------------------------------------------------------ bounds

\* Most lines a response text of the remote source has.
MaxLines == 3

\* Longest window of calculatePasses, in minutes.
MaxMinutes == 4

\* ------------------------------------------------------------------ constants

TLE_CACHE_DURATION == 24 * 60 * 60 * 1000

Ids == {"25544", "20580"}

Calls == {"c1", "c2"}

NoEntry == [absent |-> TRUE]

NoTLE == [none |-> TRUE]

\* The readings of Date.now() at which steps happen: the start, just under one
\* cache lifetime later, and exactly one lifetime later.
Instants == {0, TLE_CACHE_DURATION - 1, TLE_CACHE_DURATION}

\* ------------------------------------------------------------------ strings

\* The lines a response text is made of: a blank one and a padded letter.
LineSet == {<<" ">>, <<"a", " ">>}

\* The lines joined by line feeds into one text.
RECURSIVE Join(_)
Join(ls) ==
    IF Len(ls) = 0 THEN <<>>
    ELSE IF Len(ls) = 1 THEN ls[1]
    ELSE ls[1] \o <<"\n">> \o Join(Tail(ls))

\* The response texts of the remote source: up to MaxLines lines.
Texts == {Join(ls) : ls \in UNION {[1..n -> LineSet] : n \in 0..MaxLines}}

\* data.split('\n'): the pieces between line feeds; an empty text gives one empty piece.
RECURSIVE Split(_)
Split(text) ==
    IF \A i \in 1..Len(text) : text[i] # "\n" THEN <<text>>
    ELSE LET k == CHOOSE i \in 1..Len(text) :
                      text[i] = "\n" /\ \A j \in 1..(i - 1) : text[j] # "\n"
         IN  <<SubSeq(text, 1, k - 1)>> \o Split(SubSeq(text, k + 1, Len(text)))

IsSpace(ch) == ch \in {" ", "\n"}

\* String.prototype.trim: white space removed from both ends.
RECURSIVE Trim(_)
Trim(s) ==
    IF s = <<>> THEN s
    ELSE IF IsSpace(s[1]) THEN Trim(Tail(s))
    ELSE IF IsSpace(s[Len(s)]) THEN Trim(SubSeq(s, 1, Len(s) - 1))
    ELSE s

\* lines[0..2] exist: reading .trim() of a missing element throws a TypeError.
HasThreeLines(lines) == Len(lines) >= 3

BuildTLE(lines) ==
    [name |-> Trim(lines[1]), line1 |-> Trim(lines[2]), line2 |-> Trim(lines[3])]

\* ------------------------------------------------------------------ fetchTLE

\* The cache test with the lifetime taken in seconds instead of milliseconds.
IsFreshInSeconds(cached, t) ==
    cached # NoEntry /\ t - cached.timestamp < 24 * 60 * 60

\* The cache test with an entry of exactly the lifetime still counted as fresh.
IsFreshAtLifetime(cached, t) ==
    cached # NoEntry /\ t - cached.timestamp <= TLE_CACHE_DURATION

\* The cache test of line 43: an entry exists and is younger than the lifetime.
IsFresh(cached, t) ==
    cached # NoEntry /\ t - cached.timestamp < TLE_CACHE_DURATION

CanStart(c) == pc[c] \in {"idle", "returned", "failed"}

\* fetchTLE(id) up to its first await: the cache hit returns, the miss calls fetch.
FetchTLEBegin(c, id) ==
    /\ CanStart(c)
    /\ callId' = [callId EXCEPT ![c] = id]
    /\ IF IsFresh(tleCache[id], now)
       THEN /\ pc' = [pc EXCEPT ![c] = "returned"]
            /\ result' = [result EXCEPT ![c] = tleCache[id].tle]
            /\ remoteCalls' = [remoteCalls EXCEPT ![c] = 0]
       ELSE /\ pc' = [pc EXCEPT ![c] = "awaitFetch"]
            /\ result' = [result EXCEPT ![c] = NoTLE]
            /\ remoteCalls' = [remoteCalls EXCEPT ![c] = 1]
    /\ UNCHANGED <<tleCache, now>>
    /\ UNCHANGED walkVars

\* fetchTLE(id) called on its own.
FetchTLEStart(c, id) ==
    /\ FetchTLEBegin(c, id)
    /\ UNCHANGED handlerVars

\* await fetch(...) resolves with a response: the function goes on to response.text().
FetchResolves(c) ==
    /\ pc[c] = "awaitFetch"
    /\ pc' = [pc EXCEPT ![c] = "awaitText"]
    /\ UNCHANGED <<tleCache, now, callId, result, remoteCalls>>
    /\ UNCHANGED walkVars
    /\ UNCHANGED handlerVars

\* The rejection handled by also dropping the entry of the identifier.
FetchRejectsAndEvicts(c) ==
    /\ pc[c] \in {"awaitFetch", "awaitText"}
    /\ pc' = [pc EXCEPT ![c] = "failed"]
    /\ tleCache' = [tleCache EXCEPT ![callId[c]] = NoEntry]
    /\ UNCHANGED <<now, callId, result, remoteCalls>>
    /\ UNCHANGED walkVars
    /\ UNCHANGED handlerVars

\* await fetch(...) or await response.text() rejects: the catch rethrows an Error.
FetchRejects(c) ==
    /\ pc[c] \in {"awaitFetch", "awaitText"}
    /\ pc' = [pc EXCEPT ![c] = "failed"]
    /\ UNCHANGED <<tleCache, now, callId, result, remoteCalls>>
    /\ UNCHANGED walkVars
    /\ UNCHANGED handlerVars

\* The store guarded by a compare-and-set: a fresh entry written meanwhile is kept.
TextResolvesKeepingFresh(c, data) ==
    /\ pc[c] = "awaitText"
    /\ LET lines == Split(data)
       IN  IF HasThreeLines(lines)
           THEN /\ tleCache' = IF IsFresh(tleCache[callId[c]], now) THEN tleCache
                                ELSE [tleCache EXCEPT ![callId[c]] =
                                         [tle |-> BuildTLE(lines), timestamp |-> now]]
                /\ result' = [result EXCEPT ![c] = BuildTLE(lines)]
                /\ pc' = [pc EXCEPT ![c] = "returned"]
           ELSE /\ pc' = [pc EXCEPT ![c] = "failed"]
                /\ UNCHANGED <<tleCache, result>>
    /\ UNCHANGED <<now, callId, remoteCalls>>
    /\ UNCHANGED walkVars
    /\ UNCHANGED handlerVars

\* response.text() resolves with data: split, trim, store, return; or throw on a
\* text of fewer than three lines.
TextResolves(c, data) ==
    /\ pc[c] = "awaitText"
    /\ LET lines == Split(data)
       IN  IF HasThreeLines(lines)
           THEN /\ tleCache' = [tleCache EXCEPT ![callId[c]] =
                                    [tle |-> BuildTLE(lines), timestamp |-> now]]
                /\ result' = [result EXCEPT ![c] = BuildTLE(lines)]
                /\ pc' = [pc EXCEPT ![c] = "returned"]
           ELSE /\ pc' = [pc EXCEPT ![c] = "failed"]
                /\ UNCHANGED <<tleCache, result>>
    /\ UNCHANGED <<now, callId, remoteCalls>>
    /\ UNCHANGED walkVars
    /\ UNCHANGED handlerVars

\* Time passes between the steps of the calls.
Tick(t) ==
    /\ t > now
    /\ now' = t
    /\ UNCHANGED <<tleCache, pc, callId, result, remoteCalls>>
    /\ UNCHANGED walkVars
    /\ UNCHANGED handlerVars

\* ------------------------------------------------------------------ calculatePasses

\* Math.PI, with angles in radians counted in quarters of pi.
PI == 4

\* One turn of the loop adds one minute to date.
STEP_MS == 60000

\* The visibility threshold of line 103, in degrees.
MIN_ELEVATION == 10

NoPass == [none |-> TRUE]

Skipped == -1

\* The elevations, in degrees, satellite.degreesLat returns for a valid sample.
Elevations == {5, 10, 15, 20}

\* The raw azimuths ecfToLookAngles returns, in quarters of pi: 3pi/2 and -5pi/2.
RawAzimuths == {6, -10}

\* What propagation and the look-angle conversion give for one instant.
Samples ==
    {[valid |-> FALSE, elevation |-> 0, rawAzimuth |-> 0]}
    \cup [valid : {TRUE}, elevation : Elevations, rawAzimuth : RawAzimuths]

\* The startTime arguments: a midnight, and 29.5 seconds before the next one.
StartTimes == {0, 86370500}

\* The window lengths endTime - startTime: from minus half a minute, by half minutes.
Windows == {m * 30000 : m \in (-1)..(2 * MaxMinutes)}

\* The % of the language: the remainder has the sign of the dividend.
Rem(a, b) == IF a >= 0 THEN a % b ELSE -((-a) % b)

\* satellite.degreesLong: radians to degrees.
DegreesLong(radians) == (radians * 180) \div PI

\* Lines 99-101.
NormalizeAzimuth(rawAzimuth) ==
    Rem(DegreesLong(Rem(rawAzimuth + PI, 2 * PI) - PI) + 360, 360)

\* Date.prototype.toISOString: the instant as calendar fields (the day counted
\* from the epoch).
ToISOString(t) ==
    [day |-> t \div 86400000, hour |-> (t \div 3600000) % 24,
     minute |-> (t \div 60000) % 60, second |-> (t \div 1000) % 60, ms |-> t % 1000]

\* new Date(isoString).getTime().
GetTime(iso) ==
    (((iso.day * 24 + iso.hour) * 60 + iso.minute) * 60 + iso.second) * 1000 + iso.ms

\* x || 0.
OrZero(x) == IF x = 0 THEN 0 ELSE x

\* The pass opened at every visible sample, the test for a pending pass left out.
OpenPassAlways(cp, t, az, elevation) ==
    [startTime |-> ToISOString(t), startAz |-> az, maxElevation |-> elevation]

\* Lines 104-110: a pass is opened when none is pending.
OpenPass(cp, t, az, elevation) ==
    IF cp = NoPass
    THEN [startTime |-> ToISOString(t), startAz |-> az, maxElevation |-> elevation]
    ELSE cp

\* The peak overwritten by every visible sample.
UpdateMaxLatest(cp, elevation) == [cp EXCEPT !.maxElevation = elevation]

\* The peak never raised after the pass is opened.
UpdateMaxNever(cp, elevation) == cp

\* Lines 111-113.
UpdateMax(cp, elevation) ==
    IF elevation > OrZero(cp.maxElevation)
    THEN [cp EXCEPT !.maxElevation = elevation]
    ELSE cp

\* The pass completed with the startTime argument of the function as its endTime.
ClosePassAtWindowStart(cp, t, az) ==
    [startTime |-> cp.startTime, startAz |-> cp.startAz,
     maxElevation |-> cp.maxElevation,
     endTime |-> ToISOString(startTime), endAz |-> az,
     duration |-> (GetTime(ToISOString(startTime)) - GetTime(cp.startTime)) \div 1000]

\* The pass completed with its duration left in milliseconds.
ClosePassInMilliseconds(cp, t, az) ==
    [startTime |-> cp.startTime, startAz |-> cp.startAz,
     maxElevation |-> cp.maxElevation,
     endTime |-> ToISOString(t), endAz |-> az,
     duration |-> GetTime(ToISOString(t)) - GetTime(cp.startTime)]

\* Lines 115-118: the pending pass completed at instant t.
ClosePass(cp, t, az) ==
    [startTime |-> cp.startTime, startAz |-> cp.startAz,
     maxElevation |-> cp.maxElevation,
     endTime |-> ToISOString(t), endAz |-> az,
     duration |-> (GetTime(ToISOString(t)) - GetTime(cp.startTime)) \div 1000]

\* The threshold itself counted as visible.
IsVisibleAtThreshold(elevation) == elevation >= MIN_ELEVATION

\* Line 103: the sample counts as visible.
IsVisible(elevation) == elevation > MIN_ELEVATION

\* No sample skipped: one without a position is walked with its zero elevation.
IsSkippedNever(s) == FALSE

\* Line 90: the sample has no position and the turn is skipped.
IsSkipped(s) == ~s.valid

\* The loop body with the pending pass left in place when it is closed.
LoopBodyKeepsPending(cp, ps, t, s) ==
    IF IsSkipped(s) THEN [currentPass |-> cp, passes |-> ps]
    ELSE LET az == NormalizeAzimuth(s.rawAzimuth)
         IN  IF IsVisible(s.elevation)
             THEN [currentPass |-> UpdateMax(OpenPass(cp, t, az, s.elevation), s.elevation),
                   passes |-> ps]
             ELSE IF cp # NoPass
             THEN [currentPass |-> cp, passes |-> Append(ps, ClosePass(cp, t, az))]
             ELSE [currentPass |-> cp, passes |-> ps]

\* One turn of the loop body (lines 87-121) on sample s taken at instant t, from
\* pending pass cp and result ps.
LoopBody(cp, ps, t, s) ==
    IF IsSkipped(s) THEN [currentPass |-> cp, passes |-> ps]
    ELSE LET az == NormalizeAzimuth(s.rawAzimuth)
         IN  IF IsVisible(s.elevation)
             THEN [currentPass |-> UpdateMax(OpenPass(cp, t, az, s.elevation), s.elevation),
                   passes |-> ps]
             ELSE IF cp # NoPass
             THEN [currentPass |-> NoPass, passes |-> Append(ps, ClosePass(cp, t, az))]
             ELSE [currentPass |-> cp, passes |-> ps]

\* Host time zones: one without offset transitions, and one whose clocks are set
\* back by an hour at the instant TransitionAt (the end of a summer time).
HostZones == {"UTC", "Fallback"}

\* The instant of the transition, and the offset from UTC in force before it; the
\* offset after it is zero.
TransitionAt == 2 * STEP_MS
OffsetBefore == 60 * STEP_MS

\* The offset of local time from UTC at instant t in zone z.
Offset(z, t) == IF z = "Fallback" /\ t < TransitionAt THEN OffsetBefore ELSE 0

\* Date's LocalTime(t): the local time value of instant t.
LocalTime(z, t) == t + Offset(z, t)

\* Date's UTC(local): the instant of a local time value. A local time that occurs
\* twice is read with the offset in force before the transition.
UTC(z, local) ==
    IF z = "Fallback" /\ local - OffsetBefore < TransitionAt
    THEN local - OffsetBefore
    ELSE local

\* The loop increment of line 86, date.setMinutes(date.getMinutes() + 1): one
\* minute is added to the local time value, which is then read back as an instant.
SetMinutes(z, t) == UTC(z, LocalTime(z, t) + STEP_MS)

\* The loop test of line 86: date <= endTime.
InWindow(d, en) == d <= en

\* calculatePasses is entered: lines 83-86 up to the first loop test.
CalculatePassesCall(st, en, z) ==
    /\ pcW = "idle"
    /\ pcW' = "loop"
    /\ startTime' = st
    /\ endTime' = en
    /\ date' = st
    /\ currentPass' = NoPass
    /\ passes' = <<>>
    /\ elevations' = <<>>
    /\ visited' = <<>>
    /\ zone' = z
    /\ refCurrentPass' = NoPass
    /\ refPasses' = <<>>
    /\ UNCHANGED azimuth
    /\ UNCHANGED fetchVars
    /\ UNCHANGED handlerVars

\* One turn of the loop: the sample s is what propagation gives at date.
Iterate(s) ==
    /\ pcW = "loop"
    /\ InWindow(date, endTime)
    /\ LET r == LoopBody(currentPass, passes, date, s)
       IN  /\ currentPass' = r.currentPass
           /\ passes' = r.passes
    /\ LET g == IF s.valid THEN LoopBody(refCurrentPass, refPasses, date, s)
                ELSE [currentPass |-> refCurrentPass, passes |-> refPasses]
       IN  /\ refCurrentPass' = g.currentPass
           /\ refPasses' = g.passes
    /\ elevations' = Append(elevations, IF s.valid THEN s.elevation ELSE Skipped)
    /\ visited' = Append(visited, date)
    /\ azimuth' = IF s.valid THEN NormalizeAzimuth(s.rawAzimuth) ELSE azimuth
    /\ date' = SetMinutes(zone, date)
    /\ UNCHANGED <<pcW, startTime, endTime, zone>>
    /\ UNCHANGED fetchVars
    /\ UNCHANGED handlerVars

\* The return that first completes the pending pass at the last instant walked.
ReturnFlushing ==
    /\ pcW = "loop"
    /\ ~InWindow(date, endTime)
    /\ pcW' = "returned"
    /\ passes' = IF currentPass # NoPass
                 THEN Append(passes, ClosePass(currentPass, date - STEP_MS, azimuth))
                 ELSE passes
    /\ UNCHANGED <<startTime, endTime, date, currentPass, elevations,
                   azimuth, visited, zone, refCurrentPass, refPasses>>
    /\ UNCHANGED fetchVars
    /\ UNCHANGED handlerVars

\* The loop test fails: line 124 returns passes.
Return ==
    /\ pcW = "loop"
    /\ ~InWindow(date, endTime)
    /\ pcW' = "returned"
    /\ UNCHANGED <<startTime, endTime, date, currentPass, passes, elevations,
                   azimuth, visited, zone, refCurrentPass, refPasses>>
    /\ UNCHANGED fetchVars
    /\ UNCHANGED handlerVars

\* ------------------------------------------------------------------ passesPrediction

\* A field of req.body after the destructuring of line 129: undefined when the
\* body has no such field, else the string sent.
Undefined == [present |-> FALSE, text |-> ""]
String(s) == [present |-> TRUE, text |-> s]

\* The characters of the strings that occur as field values ("undefined" is what
\* parseFloat makes of an undefined argument).
Chars ==
    ("" :> <<>>) @@ ("90" :> <<"9", "0">>) @@ ("91" :> <<"9", "1">>)
    @@ ("abc" :> <<"a", "b", "c">>)
    @@ ("37.7749" :> <<"3", "7", ".", "7", "7", "4", "9">>)
    @@ ("-90.5" :> <<"-", "9", "0", ".", "5">>)
    @@ ("180" :> <<"1", "8", "0">>) @@ ("181" :> <<"1", "8", "1">>)
    @@ ("-122.4194" :> <<"-", "1", "2", "2", ".", "4", "1", "9", "4">>)
    @@ ("undefined" :> <<"u", "n", "d", "e", "f", "i", "n", "e", "d">>)

\* The request bodies: each field absent or one of a few strings.
SatelliteIdFields == {Undefined, String("25544")}
LatFields == {Undefined} \cup {String(t) : t \in {"", "90", "91", "abc", "37.7749", "-90.5"}}
LngFields == {Undefined} \cup {String(t) : t \in {"180", "181", "abc", "-122.4194"}}
Bodies == [satelliteId : SatelliteIdFields, lat : LatFields, lng : LngFields]

\* !x for a field: undefined and the empty string are falsy.
IsFalsy(f) == ~f.present \/ f.text = ""

\* The test with only the identifier looked at.
IsMissingIdOnly(body) == IsFalsy(body.satelliteId)

\* The test of line 131: !satelliteId || !lat || !lng.
IsMissing(body) ==
    IsFalsy(body.satelliteId) \/ IsFalsy(body.lat) \/ IsFalsy(body.lng)

\* Numbers as parseFloat gives them: NaN, or the fraction num / den.
NaN == [nan |-> TRUE, num |-> 0, den |-> 1]

DigitValue ==
    ("0" :> 0) @@ ("1" :> 1) @@ ("2" :> 2) @@ ("3" :> 3) @@ ("4" :> 4)
    @@ ("5" :> 5) @@ ("6" :> 6) @@ ("7" :> 7) @@ ("8" :> 8) @@ ("9" :> 9)

IsDigit(ch) == ch \in DOMAIN DigitValue

\* The longest prefix of s made of digits.
RECURSIVE DigitPrefix(_)
DigitPrefix(s) ==
    IF s # <<>> /\ IsDigit(s[1]) THEN <<s[1]>> \o DigitPrefix(Tail(s)) ELSE <<>>

\* The number a sequence of digits writes.
RECURSIVE DigitsValue(_)
DigitsValue(ds) ==
    IF ds = <<>> THEN 0
    ELSE 10 * DigitsValue(SubSeq(ds, 1, Len(ds) - 1)) + DigitValue[ds[Len(ds)]]

RECURSIVE PowerOfTen(_)
PowerOfTen(n) == IF n = 0 THEN 1 ELSE 10 * PowerOfTen(n - 1)

\* White space removed from the front.
RECURSIVE TrimStart(_)
TrimStart(s) == IF s # <<>> /\ IsSpace(s[1]) THEN TrimStart(Tail(s)) ELSE s

\* parseFloat (lines 136-137): leading white space is skipped, then the longest
\* prefix that is a decimal literal (sign, digits, point, digits) is read; NaN when
\* that prefix has no digit. Exponents and Infinity are not modelled.
ParseFloat(str) ==
    LET s == TrimStart(str)
        signed == s # <<>> /\ s[1] \in {"-", "+"}
        u == IF signed THEN Tail(s) ELSE s
        ip == DigitPrefix(u)
        r == SubSeq(u, Len(ip) + 1, Len(u))
        fp == IF r # <<>> /\ r[1] = "." THEN DigitPrefix(Tail(r)) ELSE <<>>
        magnitude == DigitsValue(ip \o fp)
    IN  IF ip = <<>> /\ fp = <<>> THEN NaN
        ELSE [nan |-> FALSE,
              num |-> IF signed /\ s[1] = "-" THEN -magnitude ELSE magnitude,
              den |-> PowerOfTen(Len(fp))]

\* parseFloat of a field: an undefined argument is first turned into a string.
ParseField(f) == ParseFloat(Chars[IF f.present THEN f.text ELSE "undefined"])

\* x < k and x > k as JavaScript decides them: false when x is NaN.
LessThan(x, k) == ~x.nan /\ x.num < k * x.den
GreaterThan(x, k) == ~x.nan /\ x.num > k * x.den

\* The test of line 139.
OutOfRange(latitude, longitude) ==
    \/ LessThan(latitude, -90) \/ GreaterThan(latitude, 90)
    \/ LessThan(longitude, -180) \/ GreaterThan(longitude, 180)

\* The responses of the handler: res.status(...).json(...).
MissingRequiredParameters ==
    [status |-> 400, json |-> [error |-> "Missing required parameters"]]
InvalidCoordinates == [status |-> 400, json |-> [error |-> "Invalid coordinates"]]
ErrorParsingTLE == [status |-> 400, json |-> [error |-> "Error parsing TLE data"]]
FailedToCalculate(message) ==
    [status |-> 500, json |-> [error |-> "Failed to calculate passes", details |-> message]]
Ok(formattedPasses) == [status |-> 200, json |-> [array |-> formattedPasses]]

\* Math.round of the fraction num / den: floor(x + 1/2).
MathRound(num, den) == (2 * num + den) \div (2 * den)

\* format(new Date(iso), 'yyyy-MM-dd HH:mm:ss'): the calendar fields of the instant
\* in the local time of the host, to the second.
FormatDate(z, iso) ==
    LET l == ToISOString(LocalTime(z, GetTime(iso)))
    IN  [day |-> l.day, hour |-> l.hour, minute |-> l.minute, second |-> l.second]

\* Lines 163-170: the record sent for a pass.
FormatPass(z, pass) ==
    [startTime |-> FormatDate(z, pass.startTime),
     endTime |-> FormatDate(z, pass.endTime),
     maxElevation |-> MathRound(pass.maxElevation, 1),
     azimuthStart |-> MathRound(pass.startAz, 1),
     azimuthEnd |-> MathRound(pass.endAz, 1),
     duration |-> MathRound(pass.duration, 60)]

\* passes.map(...): the records in the order of the passes.
FormatPasses(z, ps) == [n \in 1..Len(ps) |-> FormatPass(z, ps[n])]

\* Pass lists calculatePasses may return to the handler: none, one or two passes.
FirstPass == ClosePass(OpenPass(NoPass, 2 * STEP_MS, 45, 15), 5 * STEP_MS, 270)
SecondPass ==
    ClosePass(UpdateMax(OpenPass(NoPass, 9 * STEP_MS + 500, 90, 15), 20),
              10 * STEP_MS + 500, 135)
PassLists == {<<>>, <<FirstPass>>, <<FirstPass, SecondPass>>}

\* What the steps after the fetch do: twoline2satrec throws, returns a falsy value
\* or a record; calculatePasses (or the formatting) throws, or returns a pass list.
NoOutcome == [satrec |-> "none", calc |-> "none", passes |-> <<>>]
Outcomes ==
    {[satrec |-> "throws", calc |-> "none", passes |-> <<>>],
     [satrec |-> "falsy", calc |-> "none", passes |-> <<>>],
     [satrec |-> "ok", calc |-> "throws", passes |-> <<>>]}
    \cup {[satrec |-> "ok", calc |-> "returns", passes |-> ps] : ps \in PassLists}

\* The handler from the await of line 144 on, with the test of line 147 left out.
ReplyWithoutSatrecTest(fetched, o, z) ==
    IF fetched = "failed" THEN FailedToCalculate("Failed to fetch TLE data")
    ELSE IF o.satrec # "ok" \/ o.calc = "throws" THEN FailedToCalculate("error.message")
    ELSE Ok(FormatPasses(z, o.passes))

\* The handler from the await of line 144 on (lines 144-188): the response it sends.
Reply(fetched, o, z) ==
    IF fetched = "failed" THEN FailedToCalculate("Failed to fetch TLE data")
    ELSE IF o.satrec = "throws" THEN FailedToCalculate("error.message")
    ELSE IF o.satrec = "falsy" THEN ErrorParsingTLE
    ELSE IF o.calc = "throws" THEN FailedToCalculate("error.message")
    ELSE Ok(FormatPasses(z, o.passes))

\* POST /api/passes arrives at handler c: lines 128-144, up to the await.
PassesPrediction(c, body) ==
    /\ hpc[c] \in {"idle", "done"}
    /\ request' = [request EXCEPT ![c] = body]
    /\ outcome' = [outcome EXCEPT ![c] = NoOutcome]
    /\ IF IsMissing(body)
       THEN /\ response' = [response EXCEPT ![c] = <<MissingRequiredParameters>>]
            /\ hpc' = [hpc EXCEPT ![c] = "done"]
            /\ UNCHANGED <<fetchVars, walkVars>>
       ELSE IF OutOfRange(ParseField(body.lat), ParseField(body.lng))
       THEN /\ response' = [response EXCEPT ![c] = <<InvalidCoordinates>>]
            /\ hpc' = [hpc EXCEPT ![c] = "done"]
            /\ UNCHANGED <<fetchVars, walkVars>>
       ELSE /\ response' = [response EXCEPT ![c] = <<>>]
            /\ hpc' = [hpc EXCEPT ![c] = "awaitTLE"]
            /\ FetchTLEBegin(c, body.satelliteId.text)

\* fetchTLE has settled and the handler goes on: lines 144-188.
PassesPredictionResumes(c, o) ==
    /\ hpc[c] = "awaitTLE"
    /\ pc[c] \in {"returned", "failed"}
    /\ (o = NoOutcome) <=> (pc[c] = "failed")
    /\ outcome' = [outcome EXCEPT ![c] = o]
    /\ response' = [response EXCEPT ![c] = Append(@, Reply(pc[c], o, zone))]
    /\ hpc' = [hpc EXCEPT ![c] = "done"]
    /\ UNCHANGED request
    /\ UNCHANGED <<fetchVars, walkVars>>

Init ==
    /\ tleCache = [id \in Ids |-> NoEntry]
    /\ now = 0
    /\ pc = [c \in Calls |-> "idle"]
    /\ callId = [c \in Calls |-> "25544"]
    /\ result = [c \in Calls |-> NoTLE]
    /\ remoteCalls = [c \in Calls |-> 0]
    /\ pcW = "idle"
    /\ startTime = 0
    /\ endTime = 0
    /\ date = 0
    /\ currentPass = NoPass
    /\ passes = <<>>
    /\ elevations = <<>>
    /\ azimuth = 0
    /\ visited = <<>>
    /\ zone = "UTC"
    /\ refCurrentPass = NoPass
    /\ refPasses = <<>>
    /\ hpc = [c \in Calls |-> "idle"]
    /\ request = [c \in Calls |-> [satelliteId |-> Undefined, lat |-> Undefined,
                                    lng |-> Undefined]]
    /\ response = [c \in Calls |-> <<>>]
    /\ outcome = [c \in Calls |-> NoOutcome]

Next ==
    \/ \E c \in Calls : \E id \in Ids : FetchTLEStart(c, id)
    \/ \E c \in Calls : FetchResolves(c)
    \/ \E c \in Calls : FetchRejects(c)
    \/ \E c \in Calls : \E data \in Texts : TextResolves(c, data)
    \/ \E t \in Instants : Tick(t)

Spec == Init /\ [][Next]_vars

NextPasses ==
    \/ \E st \in StartTimes : \E w \in Windows : CalculatePassesCall(st, st + w, "UTC")
    \/ \E s \in Samples : Iterate(s)
    \/ Return

SpecPasses == Init /\ [][NextPasses]_vars

\* calculatePasses on a host in any of the time zones.
NextZoned ==
    \/ \E st \in StartTimes : \E w \in Windows : \E z \in HostZones :
           CalculatePassesCall(st, st + w, z)
    \/ \E s \in Samples : Iterate(s)
    \/ Return

SpecZoned == Init /\ [][NextZoned]_vars

\* The end-to-end example of the design (section 8): a propagator stub that gives
\* these elevations at consecutive minutes from T0, every sample valid.
StubElevations == <<5, 5, 15, 20, 15, 5>>

\* The instants T0 of the example.
ExampleStartTimes == {0, 1, 59999, 86370500, 86399999}

StubSample(raw) ==
    [valid |-> TRUE, elevation |-> StubElevations[Len(elevations) + 1], rawAzimuth |-> raw]

NextExample ==
    \/ \E st \in ExampleStartTimes :
           CalculatePassesCall(st, st + (Len(StubElevations) - 1) * STEP_MS, "UTC")
    \/ \E raw \in RawAzimuths :
           Len(elevations) < Len(StubElevations) /\ Iterate(StubSample(raw))
    \/ Return

SpecExample == Init /\ [][NextExample]_vars

\* The handlers that serve requests.
Handlers == {"c1"}

\* POST /api/passes: requests arrive, their fetches settle, the handlers resume.
NextHandler ==
    \/ \E c \in Handlers : \E body \in Bodies : PassesPrediction(c, body)
    \/ \E c \in Handlers : FetchResolves(c)
    \/ \E c \in Handlers : FetchRejects(c)
    \/ \E c \in Handlers : \E data \in Texts : TextResolves(c, data)
    \/ \E c \in Handlers : \E o \in Outcomes \cup {NoOutcome} : PassesPredictionResumes(c, o)
    \/ \E t \in Instants : Tick(t)

SpecHandler == Init /\ [][NextHandler]_vars

\* A pending fetch settles (the remote answers, or the request errors or times
\* out), and a handler whose fetch has settled is resumed by the event loop.
FetchSettles ==
    \E c \in Handlers :
        FetchResolves(c) \/ FetchRejects(c) \/ \E data \in Texts : TextResolves(c, data)

HandlerResumes ==
    \E c \in Handlers : \E o \in Outcomes \cup {NoOutcome} : PassesPredictionResumes(c, o)

SpecHandlerFair ==
    SpecHandler /\ WF_vars(FetchSettles) /\ WF_vars(HandlerResumes)

\* ------------------------------------------------------------------ claims: fetchTLE

\* The lifetime of a cache entry, 24 hours, in milliseconds.
DayMs == 24 * 60 * 60 * 1000

\* The number of line feeds in a text: a text of n lines has n - 1 of them.
LineFeeds(data) == Cardinality({i \in 1..Len(data) : data[i] = "\n"})

\* The response texts of fewer than three lines.
ShortTexts == {data \in Texts : LineFeeds(data) < 2}

\* Call c completes a remote retrieval in this step and returns its element set.
StoresFetched(c) == pc[c] = "awaitText" /\ pc'[c] = "returned"

\* C1: a fetchTLE(id) started while the cache holds an entry for id younger than
\* 24 hours returns exactly the cached element set, calls the remote source zero
\* times and leaves every cache entry (element set and timestamp) as it was.
C1_HitReturnsCached ==
    [][\A c \in Calls : \A id \in Ids :
          (/\ FetchTLEStart(c, id)
           /\ tleCache[id] # NoEntry
           /\ now - tleCache[id].timestamp < DayMs)
          => /\ pc'[c] = "returned"
             /\ result'[c] = tleCache[id].tle
             /\ remoteCalls'[c] = 0
             /\ tleCache' = tleCache]_vars

\* A call has returned from the cache an entry one millisecond short of 24 hours old.
C1_Witness ==
    \E c \in Calls :
        /\ pc[c] = "returned"
        /\ remoteCalls[c] = 0
        /\ tleCache[callId[c]] # NoEntry
        /\ now - tleCache[callId[c]].timestamp = DayMs - 1
        /\ result[c] = tleCache[callId[c]].tle

\* C2: a fetchTLE(id) started while the entry for id is absent or at least 24 hours
\* old (exactly 24 hours included) calls the remote source once and never again;
\* a retrieval that succeeds overwrites the entry of id alone with the returned
\* element set and the current time, so that the entry is fresh for a following
\* call; and an entry, once stored, is never removed and changes only by such an
\* overwrite.
C2_MissFetchesOnceAndStores ==
    [][/\ \A c \in Calls : \A id \in Ids :
              (/\ FetchTLEStart(c, id)
               /\ (tleCache[id] = NoEntry \/ now - tleCache[id].timestamp >= DayMs))
              => /\ pc'[c] = "awaitFetch"
                 /\ remoteCalls'[c] = 1
                 /\ tleCache' = tleCache
       /\ \A c \in Calls :
              pc[c] \in {"awaitFetch", "awaitText"}
              => remoteCalls[c] = 1 /\ remoteCalls'[c] = 1
       /\ \A c \in Calls :
              StoresFetched(c)
              => /\ result'[c] # NoTLE
                 /\ tleCache'[callId[c]] = [tle |-> result'[c], timestamp |-> now]
                 /\ now - tleCache'[callId[c]].timestamp < DayMs
                 /\ \A id \in Ids \ {callId[c]} : tleCache'[id] = tleCache[id]
       /\ \A id \in Ids :
              /\ tleCache[id] # NoEntry => tleCache'[id] # NoEntry
              /\ tleCache'[id] # tleCache[id]
                 => \E c \in Calls : StoresFetched(c) /\ callId[c] = id]_vars

\* A call, alone at work, has found its own earlier entry exactly 24 hours old and
\* is fetching again, the expired entry still in the cache.
C2_Witness ==
    \E c \in Calls :
        /\ pc[c] = "awaitFetch"
        /\ remoteCalls[c] = 1
        /\ \A d \in Calls \ {c} : pc[d] = "idle"
        /\ tleCache[callId[c]] # NoEntry
        /\ now - tleCache[callId[c]].timestamp = DayMs

\* C3: a remote retrieval that fails (the network call or the body read rejects, or
\* the text has fewer than three lines: no such text lets the call return) makes
\* fetchTLE fail after that one attempt, with no element set returned, and the
\* failing step leaves the cache as it was; no step other than a successful
\* retrieval changes the cache, so a stale entry of id is neither replaced nor
\* removed.
C3_FailureLeavesCache ==
    [][/\ \A c \in Calls :
              (pc[c] # "failed" /\ pc'[c] = "failed")
              => /\ pc[c] \in {"awaitFetch", "awaitText"}
                 /\ remoteCalls[c] = 1
                 /\ remoteCalls'[c] = 1
                 /\ result'[c] = NoTLE
                 /\ tleCache' = tleCache
       /\ \A c \in Calls :
              StoresFetched(c) => \A data \in ShortTexts : ~TextResolves(c, data)
       /\ \A c \in Calls :
              FetchRejects(c) => pc'[c] = "failed"
       /\ tleCache' # tleCache => \E c \in Calls : StoresFetched(c)]_vars

\* A call, alone at work, has failed while the cache still holds the entry of its
\* identifier, 24 hours old.
C3_Witness ==
    \E c \in Calls :
        /\ pc[c] = "failed"
        /\ remoteCalls[c] = 1
        /\ \A d \in Calls \ {c} : pc[d] = "idle"
        /\ tleCache[callId[c]] # NoEntry
        /\ now - tleCache[callId[c]].timestamp = DayMs

\* ------------------------------------------------------------------ claims: calculatePasses

\* The place in elevations of the sample taken at the instant iso names.
SampleIndex(iso) == (GetTime(iso) - startTime) \div 60000 + 1

\* The instant iso names is one of the walk's sample instants.
OnSample(iso) ==
    /\ (GetTime(iso) - startTime) % 60000 = 0
    /\ SampleIndex(iso) \in 1..Len(elevations)

IsValidAt(k) == elevations[k] # Skipped

\* The places of the valid samples.
ValidPlaces == {k \in 1..Len(elevations) : IsValidAt(k)}

\* The place of the last valid sample before place k, 0 if there is none.
PrevValid(k) ==
    IF \E m \in ValidPlaces : m < k
    THEN CHOOSE m \in ValidPlaces : m < k /\ \A n \in ValidPlaces : n < k => n <= m
    ELSE 0

\* The places where visibility ends: a valid sample at or below 10 degrees whose
\* preceding valid sample is above 10 degrees.
Descents ==
    {k \in ValidPlaces :
        /\ elevations[k] <= 10
        /\ PrevValid(k) # 0
        /\ elevations[PrevValid(k)] > 10}

\* The last valid sample is above 10 degrees.
LastValidVisible ==
    /\ ValidPlaces # {}
    /\ \E m \in ValidPlaces : (\A n \in ValidPlaces : n <= m) /\ elevations[m] > 10

\* The final sample of the walk is valid and above 10 degrees.
FinalSampleVisible == Len(elevations) > 0 /\ elevations[Len(elevations)] > 10

\* The place where the visibility that lasts to the end of the walk begins.
FinalRunStart ==
    CHOOSE f \in ValidPlaces :
        /\ \A k \in ValidPlaces : k >= f => elevations[k] > 10
        /\ PrevValid(f) # 0 => elevations[PrevValid(f)] <= 10

C5_BoundariesOnSamples ==
    \A n \in 1..Len(passes) :
        LET p == passes[n]
            i == SampleIndex(p.startTime)
            j == SampleIndex(p.endTime)
            j0 == IF n = 1 THEN 0 ELSE SampleIndex(passes[n - 1].endTime)
        IN  /\ OnSample(p.startTime)
            /\ OnSample(p.endTime)
            /\ p.startTime = ToISOString(startTime + (i - 1) * 60000)
            /\ p.endTime = ToISOString(startTime + (j - 1) * 60000)
            /\ i < j
            /\ IsValidAt(i) /\ elevations[i] > 10
            /\ IsValidAt(j) /\ elevations[j] <= 10
            /\ \A k \in (i + 1)..(j - 1) : IsValidAt(k) => elevations[k] > 10
            /\ j0 < i
            /\ \A k \in (j0 + 1)..(i - 1) : IsValidAt(k) => elevations[k] <= 10

\* A returned pass that opened right after a sample of exactly 10 degrees and was
\* closed by a sample of exactly 10 degrees.
C5_Witness ==
    /\ pcW = "returned"
    /\ \E n \in 1..Len(passes) :
           LET i == SampleIndex(passes[n].startTime)
               j == SampleIndex(passes[n].endTime)
           IN  i > 1 /\ elevations[i - 1] = 10 /\ elevations[j] = 10

BoundaryFlush(cp, ps, t, az) ==
    IF cp = NoPass THEN ps
    ELSE Append(ps, [startTime |-> cp.startTime, startAz |-> cp.startAz,
                     maxElevation |-> cp.maxElevation,
                     endTime |-> ToISOString(t), endAz |-> az,
                     duration |-> (t - GetTime(cp.startTime)) \div 1000])

\* The pass list under the boundary-flush policy, the flush made at the final sample.
FlushPasses == BoundaryFlush(currentPass, passes, date - 60000, azimuth)

\* C7 as claimed: with the final sample above 10 degrees, the discard policy and
\* the boundary-flush policy return the same pass list.
C7_SameUnderBothPolicies ==
    (pcW = "returned" /\ FinalSampleVisible) => FlushPasses = passes

\* C7 as amended: with the final sample above 10 degrees, the boundary-flush list
\* is the discard list followed by exactly one more pass, which starts where the
\* final visibility began and ends at the final sample; the two lists differ.
C7_FlushAddsOnePass ==
    (pcW = "returned" /\ FinalSampleVisible) =>
        /\ Len(FlushPasses) = Len(passes) + 1
        /\ SubSeq(FlushPasses, 1, Len(passes)) = passes
        /\ FlushPasses # passes
        /\ LET last == FlushPasses[Len(FlushPasses)]
           IN  /\ last.startTime = ToISOString(startTime + (FinalRunStart - 1) * 60000)
               /\ last.endTime = ToISOString(startTime + (Len(elevations) - 1) * 60000)
               /\ last.duration = (Len(elevations) - FinalRunStart) * 60

\* The walk has returned one closed pass with the final sample above 10 degrees
\* and the visibility at the end lasting more than one sample.
C7_Witness ==
    /\ pcW = "returned"
    /\ FinalSampleVisible
    /\ Len(passes) >= 1
    /\ FinalRunStart < Len(elevations)

\* C8: the elevations 5, 5, 15, 20, 15, 5 at six consecutive minutes from T0, the
\* window ending at T0 + 5 min, give exactly one pass: from T0 + 2 min to
\* T0 + 5 min, maxElevation 20, duration 180 seconds.
C8_ExamplePass ==
    (/\ pcW = "returned"
     /\ endTime = startTime + 5 * 60000
     /\ elevations = <<5, 5, 15, 20, 15, 5>>)
    => /\ Len(passes) = 1
       /\ GetTime(passes[1].startTime) = startTime + 2 * 60000
       /\ GetTime(passes[1].endTime) = startTime + 5 * 60000
       /\ passes[1].maxElevation = 20
       /\ passes[1].duration = 180

\* The walk over exactly that elevation sequence has returned.
C8_Witness ==
    /\ pcW = "returned"
    /\ endTime = startTime + 5 * 60000
    /\ elevations = <<5, 5, 15, 20, 15, 5>>

\* C9: a sample without a valid position changes neither the pending pass nor the
\* result, so the walk agrees at every point with the same walk over the valid
\* samples alone (each keeping its timestamp).
C9_SkippedSamplesIgnored ==
    /\ passes = refPasses
    /\ currentPass = refCurrentPass
    /\ (Len(elevations) > 0 /\ ~IsValidAt(Len(elevations)))
       => (currentPass = NoPass <=> ~(PrevValid(Len(elevations)) # 0
                                       /\ elevations[PrevValid(Len(elevations))] > 10))

\* A returned pass with a skipped sample between its start and its end.
C9_Witness ==
    /\ pcW = "returned"
    /\ \E n \in 1..Len(passes) :
           \E k \in (SampleIndex(passes[n].startTime) + 1)..(SampleIndex(passes[n].endTime) - 1) :
               ~IsValidAt(k)

\* C10: the startAz and endAz of every returned pass lie in [0, 360) degrees, for
\* every raw azimuth of any sign and magnitude.
C10_AzimuthsInRange ==
    \A n \in 1..Len(passes) :
        /\ 0 <= passes[n].startAz /\ passes[n].startAz < 360
        /\ 0 <= passes[n].endAz /\ passes[n].endAz < 360

\* No valid sample so far is above 10 degrees.
NeverVisible == \A k \in ValidPlaces : elevations[k] <= 10

\* C11: while no valid sample has an elevation strictly above 10 degrees, no pass
\* is pending and the pass list is empty, whatever the window and whatever samples
\* are skipped.
C11_NeverVisibleNoPass ==
    NeverVisible => (passes = <<>> /\ currentPass = NoPass)

\* The walk has returned over a window holding a skipped sample and a sample of
\* exactly 10 degrees followed by a lower one, none above 10.
C11_Witness ==
    /\ pcW = "returned"
    /\ NeverVisible
    /\ \E k \in 1..Len(elevations) : ~IsValidAt(k)
    /\ \E k \in 1..(Len(elevations) - 1) : elevations[k] = 10 /\ elevations[k + 1] = 5

\* The greatest of a non-empty set of numbers.
Maximum(S) == CHOOSE x \in S : \A y \in S : y <= x

\* C16: the maxElevation of every pass is the greatest elevation of the valid
\* samples from the sample that opened it up to, not including, the sample that
\* closed it, and so is strictly above 10 degrees.
C16_MaxElevationOfPass ==
    \A n \in 1..Len(passes) :
        LET i == SampleIndex(passes[n].startTime)
            j == SampleIndex(passes[n].endTime)
        IN  /\ passes[n].maxElevation =
                   Maximum({elevations[k] : k \in {m \in i..(j - 1) : IsValidAt(m)}})
            /\ passes[n].maxElevation > 10

\* A returned pass whose peak lies above the elevation of the sample that opened
\* it, with a skipped sample inside.
C16_Witness ==
    /\ pcW = "returned"
    /\ \E n \in 1..Len(passes) :
           LET i == SampleIndex(passes[n].startTime)
               j == SampleIndex(passes[n].endTime)
           IN  /\ passes[n].maxElevation > elevations[i]
               /\ \E k \in (i + 1)..(j - 1) : ~IsValidAt(k)

SampleCount ==
    IF startTime <= endTime THEN (endTime - startTime) \div 60000 + 1 ELSE 0

\* C19: the walk visits the instants startTime + k minutes, k = 0, 1, ..., in
\* that order and each once, never more than floor((endTime - startTime) / 1 min)
\* + 1 of them; while it has not returned it can take a step; and when it returns
\* it has visited exactly those for k up to that floor, endTime itself among them
\* when the window is a whole number of minutes. For startTime > endTime no sample
\* is taken and the result is empty.
C19_WalkVisitsEveryMinute ==
    pcW \in {"loop", "returned"} =>
        /\ Len(visited) <= SampleCount
        /\ \A k \in 1..Len(visited) : visited[k] = startTime + (k - 1) * 60000
        /\ Len(elevations) = Len(visited)
        /\ pcW = "loop" => ENABLED NextZoned
        /\ pcW = "returned" =>
               /\ Len(visited) = SampleCount
               /\ (startTime <= endTime /\ (endTime - startTime) % 60000 = 0)
                  => visited[Len(visited)] = endTime
               /\ startTime > endTime => passes = <<>>

IsWhole(tle) == DOMAIN tle = {"name", "line1", "line2"}

\* Every cache entry is a whole element set with its timestamp.
CacheEntriesWhole ==
    \A id \in Ids :
        tleCache[id] # NoEntry =>
            /\ DOMAIN tleCache[id] = {"tle", "timestamp"}
            /\ IsWhole(tleCache[id].tle)

\* Call c stores what it fetched while the entry of its identifier is fresh: the
\* entry was written after c missed, by a call in flight at the same time as c.
StoresOverFresh(c) ==
    StoresFetched(c) /\ IsFresh(tleCache[callId[c]], now)

\* C15 (as stated): of overlapping calls for one identifier each one that completes
\* returns a whole element set, the cache never holds a partial entry, and the
\* overwrite is idempotent: a call that stores over the entry of an overlapping
\* call leaves the same element set in the cache.
C15_OverwriteIdempotent ==
    /\ [](CacheEntriesWhole)
    /\ [][\A c \in Calls :
              StoresOverFresh(c) =>
                  /\ IsWhole(result'[c])
                  /\ tleCache'[callId[c]].tle = tleCache[callId[c]].tle]_vars

\* C15 (amended): of overlapping calls for one identifier each one that completes
\* returns a whole element set, the cache never holds a partial entry, and the
\* last call to complete decides the entry: the entry holds that call's element
\* set and completion time, and no other entry changes; it is the element set of
\* the earlier call exactly when both retrievals returned the same one.
C15_LastWriterWins ==
    /\ [](CacheEntriesWhole)
    /\ [][\A c \in Calls :
              StoresOverFresh(c) =>
                  /\ IsWhole(result'[c])
                  /\ tleCache' = [tleCache EXCEPT ![callId[c]] =
                                      [tle |-> result'[c], timestamp |-> now]]
                  /\ (tleCache'[callId[c]].tle = tleCache[callId[c]].tle)
                         <=> (result'[c] = tleCache[callId[c]].tle)]_vars

\* Both calls retrieved the element set of one identifier at the first instant,
\* so neither saw the other's entry; they returned different element sets, and
\* the cache holds that of one of them.
C15_Witness ==
    /\ now = 0
    /\ \A c \in Calls : pc[c] = "returned" /\ remoteCalls[c] = 1
    /\ callId["c1"] = callId["c2"]
    /\ result["c1"] # result["c2"]
    /\ tleCache[callId["c1"]].tle = result["c2"]
    /\ tleCache[callId["c1"]].timestamp = 0

\* An element set whose two data lines are non-empty and trimmed.
LinesWellFormed(tle) ==
    /\ tle.line1 # <<>> /\ Trim(tle.line1) = tle.line1
    /\ tle.line2 # <<>> /\ Trim(tle.line2) = tle.line2

\* C18: every element set in the cache, and every element set a call returned,
\* has non-empty, trimmed line1 and line2, whatever text the remote source sent.
C18_LinesNonEmptyTrimmed ==
    /\ \A id \in Ids : tleCache[id] # NoEntry => LinesWellFormed(tleCache[id].tle)
    /\ \A c \in Calls : result[c] # NoTLE => LinesWellFormed(result[c])

\* ------------------------------------------------------------------ claims: passesPrediction

\* A body in which satelliteId, lat or lng is absent.
SomeFieldAbsent(body) ==
    ~body.satelliteId.present \/ ~body.lat.present \/ ~body.lng.present

\* C12: a request in which satelliteId, lat or lng is absent is answered with 400
\* "Missing required parameters" and nothing else, and the step that answers it
\* issues no remote retrieval, starts no fetch and leaves the cache unchanged.
C12_MissingRejectedBeforeFetch ==
    /\ [](\A c \in Handlers :
              (hpc[c] # "idle" /\ SomeFieldAbsent(request[c])) =>
                  (hpc[c] = "done" /\ response[c] = <<MissingRequiredParameters>>))
    /\ [][\A c \in Handlers :
              (SomeFieldAbsent(request'[c]) /\ PassesPrediction(c, request'[c])) =>
                  /\ tleCache' = tleCache
                  /\ pc' = pc
                  /\ remoteCalls' = remoteCalls
                  /\ result' = result]_vars

\* A request with only lng absent has been answered while the cache holds an entry
\* for its identifier.
C12_Witness ==
    /\ hpc["c1"] = "done"
    /\ request["c1"].satelliteId.present
    /\ request["c1"].lat = String("37.7749")
    /\ ~request["c1"].lng.present
    /\ response["c1"] = <<MissingRequiredParameters>>
    /\ tleCache["25544"] # NoEntry

\* A body with all three fields.
AllPresent(body) ==
    body.satelliteId.present /\ body.lat.present /\ body.lng.present

\* x is a number and lies in [lo, hi].
IsNumberIn(x, lo, hi) == ~x.nan /\ lo * x.den <= x.num /\ x.num <= hi * x.den

\* The latitude and longitude parsed from the body are numbers inside their ranges.
CoordinatesInRange(body) ==
    /\ IsNumberIn(ParseField(body.lat), -90, 90)
    /\ IsNumberIn(ParseField(body.lng), -180, 180)

\* C13: a request with all three fields present whose parsed latitude is not a
\* number in [-90, 90], or whose parsed longitude is not a number in [-180, 180],
\* is answered with 400 "Invalid coordinates" without any fetch; a request with
\* both inside the ranges is not answered so.
C13_InvalidCoordinatesRejected ==
    \A c \in Handlers :
        (hpc[c] # "idle" /\ AllPresent(request[c])) =>
            /\ ~CoordinatesInRange(request[c]) =>
                   (hpc[c] = "done" /\ response[c] = <<InvalidCoordinates>>)
            /\ CoordinatesInRange(request[c]) => response[c] # <<InvalidCoordinates>>

\* The request got past the tests of lines 131 and 139.
PassedValidation(body) ==
    ~IsMissing(body) /\ ~OutOfRange(ParseField(body.lat), ParseField(body.lng))

\* The record sent for a pass: its six fields, the times to the second, the whole
\* degrees of the pass and its duration in minutes.
IsRecordOf(record, pass) ==
    /\ DOMAIN record = {"startTime", "endTime", "maxElevation", "azimuthStart",
                        "azimuthEnd", "duration"}
    /\ \A f \in {"day", "hour", "minute", "second"} :
           /\ record.startTime[f] = pass.startTime[f]
           /\ record.endTime[f] = pass.endTime[f]
    /\ record.maxElevation = pass.maxElevation
    /\ record.azimuthStart = pass.startAz
    /\ record.azimuthEnd = pass.endAz
    /\ record.duration * 60 = pass.duration

\* A request that got past validation has no response while its fetch is pending
\* and exactly one once the handler is done, decided by the first step that
\* fails: 500 "Failed to calculate passes" when the fetch failed or a later step
\* threw, 400 "Error parsing TLE data" when twoline2satrec gave a falsy value,
\* else 200 with one record per pass of calculatePasses, in the same order.
OneResponseByFirstFailure ==
    \A c \in Handlers :
        (hpc[c] # "idle" /\ PassedValidation(request[c])) =>
            /\ hpc[c] = "awaitTLE" => response[c] = <<>>
            /\ hpc[c] = "done" =>
                   /\ Len(response[c]) = 1
                   /\ LET r == response[c][1]
                          o == outcome[c]
                      IN  /\ (\/ pc[c] = "failed"
                              \/ o.satrec = "throws"
                              \/ (o.satrec = "ok" /\ o.calc = "throws"))
                             => (r.status = 500
                                 /\ r.json.error = "Failed to calculate passes")
                          /\ (pc[c] = "returned" /\ o.satrec = "falsy")
                             => r = ErrorParsingTLE
                          /\ (pc[c] = "returned" /\ o.satrec = "ok" /\ o.calc = "returns")
                             => /\ r.status = 200
                                /\ DOMAIN r.json = {"array"}
                                /\ Len(r.json.array) = Len(o.passes)
                                /\ \A n \in 1..Len(o.passes) :
                                       IsRecordOf(r.json.array[n], o.passes[n])

\* C14: every request that got past validation receives exactly one response,
\* the one the first failing step decides (500 for a failed fetch or a later
\* throw, 400 for a falsy satrec, else 200 with the records of the passes in
\* order): none is sent before the handler is done, and the handler gets done.
C14_OneResponseByFirstFailure ==
    /\ [](OneResponseByFirstFailure)
    /\ \A c \in Handlers : (hpc[c] = "awaitTLE") ~> (hpc[c] = "done")

\* A validated request was answered 200 with the records of two passes, after
\* its fetch stored the element set.
C14_Witness ==
    /\ hpc["c1"] = "done"
    /\ PassedValidation(request["c1"])
    /\ pc["c1"] = "returned"
    /\ remoteCalls["c1"] = 1
    /\ Len(response["c1"]) = 1
    /\ response["c1"][1].status = 200
    /\ Len(response["c1"][1].json.array) = 2

====
